---- MODULE Spec2Model ----
(***************************************************************************)
(* Model of pymc_marketing/mmm/tvp.py: the time-index resolver             *)
(* (infer_time_index), the HSGP prior builder (time_varying_prior) and the *)
(* multiplier assembly (create_time_varying_gp_multiplier).                *)
(*                                                                         *)
(* Four specifications share the module:                                   *)
(*   SpecIndex  one call of infer_time_index on drawn inputs               *)
(*   SpecValue  one evaluation of the multiplier expression (lines         *)
(*              178-180) on a drawn basis and coefficient realization      *)
(*   SpecPrior  one direct call of time_varying_prior on drawn arguments   *)
(*   Spec       a sequence of create_time_varying_gp_multiplier calls on   *)
(*              one model context and one configuration mapping            *)
(***************************************************************************)
EXTENDS Integers, Sequences, FiniteSets, TLC

VARIABLES idx, val, pend, model, model_config, last, ncalls

vars == <<idx, val, pend, model, model_config, last, ncalls>>

\* Python's None. Optional values are tuples, so None compares with them.
None == <<>>

RECURSIVE SumSeq(_)
SumSeq(s) == IF s = <<>> THEN 0 ELSE Head(s) + SumSeq(Tail(s))

SeqsUpTo(S, n) == UNION {[1..k -> S] : k \in 0..n}

(***************************************************************************)
(* infer_time_index (lines 233-240)                                        *)
(***************************************************************************)

\* Dates are day ordinals 0..MaxDay; sequences hold at most MaxLen new dates
\* and at most MaxRefLen reference dates; time_resolution is 0..MaxRes.
MaxDay == 3
MaxLen == 2
MaxRefLen == 1
MaxRes == 5

\* (date_series_new - date_series[0]).days : elementwise day difference from
\* the first reference date.
DaysSince(date_series_new, date_series) ==
    [i \in 1..Len(date_series_new) |-> date_series_new[i] - date_series[1]]

\* Division that truncates toward zero.
TruncDivide(x, k) ==
    IF k = 0 THEN [finite |-> FALSE, value |-> 0]
    ELSE [finite |-> TRUE,
          value |-> IF x >= 0 THEN x \div k ELSE -((-x) \div k)]

\* One element of `days // time_resolution` on a pandas integer Index: floor
\* division; a zero divisor is not refused, the element becomes a non-finite
\* float (inf, -inf or nan, kept here as its sign).
FloorDivide(x, k) ==
    IF k = 0
    THEN [finite |-> FALSE, value |-> IF x > 0 THEN 1 ELSE IF x < 0 THEN -1 ELSE 0]
    ELSE [finite |-> TRUE, value |-> x \div k]

\* .astype(int): the cast refuses non-finite elements, otherwise gives the
\* integers.
AsTypeInt(q) ==
    IF \E i \in 1..Len(q) : ~q[i].finite
    THEN [status |-> "raised", error |-> "ValueError", value |-> <<>>]
    ELSE [status |-> "returned", error |-> "",
          value |-> [i \in 1..Len(q) |-> q[i].value]]

\* The whole function. `divided` records that line 240's `//` ran.
infer_time_index(date_series_new, date_series, time_resolution) ==
    IF date_series = <<>>
    THEN [status |-> "raised", error |-> "IndexError", value |-> <<>>,
          divided |-> FALSE]
    ELSE LET days == DaysSince(date_series_new, date_series)
             q == [i \in 1..Len(days) |-> FloorDivide(days[i], time_resolution)]
             r == AsTypeInt(q)
         IN  [status |-> r.status, error |-> r.error, value |-> r.value,
              divided |-> TRUE]

IdxInputs ==
    [date_series_new : SeqsUpTo(0..MaxDay, MaxLen),
     date_series : SeqsUpTo(0..MaxDay, MaxRefLen),
     time_resolution : 0..MaxRes]

IdxIdle == [pc |-> "off"]

InitIndex ==
    /\ \E a \in IdxInputs : idx = [pc |-> "ready", args |-> a]
    /\ val = [pc |-> "off"]
    /\ pend = [pc |-> "off"]
    /\ model = None
    /\ model_config = None
    /\ last = None
    /\ ncalls = 0

InferTimeIndex ==
    /\ idx.pc = "ready"
    /\ idx' = [pc |-> "done", args |-> idx.args,
               out |-> infer_time_index(idx.args.date_series_new,
                                        idx.args.date_series,
                                        idx.args.time_resolution)]
    /\ UNCHANGED <<val, pend, model, model_config, last, ncalls>>

NextIndex == InferTimeIndex

SpecIndex == InitIndex /\ [][NextIndex]_vars

\* C1: for time_resolution >= 1 and a non-empty reference, the call returns
\* one index per new date, and each index q is the floor of
\* (d - reference_dates[0]) / time_resolution, i.e. the one integer with
\* q * k <= d - reference_dates[0] < (q + 1) * k; the epoch is the first
\* reference date; a date before it gets a negative index and the reference
\* date itself gets 0.
C1_FloorIndex ==
    (idx.pc = "done" /\ idx.args.time_resolution >= 1 /\ idx.args.date_series # <<>>) =>
        LET new == idx.args.date_series_new
            ref == idx.args.date_series[1]
            k == idx.args.time_resolution
            out == idx.out
        IN  /\ out.status = "returned"
            /\ Len(out.value) = Len(new)
            /\ \A i \in 1..Len(new) :
                 /\ out.value[i] * k <= new[i] - ref
                 /\ new[i] - ref < (out.value[i] + 1) * k
                 /\ (new[i] < ref => out.value[i] < 0)
                 /\ (new[i] = ref => out.value[i] = 0)

\* C1 witness: one day before the reference at resolution 5 gave -1, while
\* the first new date differs from the reference date.
C1_Witness ==
    /\ idx.pc = "done"
    /\ idx.args.time_resolution = 5
    /\ idx.args.date_series # <<>>
    /\ Len(idx.args.date_series_new) = 2
    /\ idx.args.date_series_new[1] # idx.args.date_series[1]
    /\ idx.args.date_series_new[2] = idx.args.date_series[1] - 1
    /\ idx.out.status = "returned"
    /\ idx.out.value[2] = -1

\* C2: with time_resolution = 0 the call fails with an invalid-argument error
\* raised before the division is attempted, and returns no index array.
C2_ZeroResolutionRejectedFirst ==
    (idx.pc = "done" /\ idx.args.time_resolution = 0 /\ idx.args.date_series # <<>>) =>
        /\ idx.out.status = "raised"
        /\ ~idx.out.divided

(***************************************************************************)
(* The multiplier expression of time_varying_prior (lines 176-180)         *)
(***************************************************************************)

\* At most MaxT time points, MaxG groups and MaxM basis functions.
MaxT == 3
MaxG == 2
MaxM == 1

\* Values are fixed-point numbers with Scale units to 1.0 (the finite
\* precision of the tensors' floats).
Scale == 1000

\* What gp.prior_linearized returns and what the Normal prior draws are
\* outside this file: phi, sqrt_psd and the coefficients are drawn from these.
PhiValues == {-1, 1}
PsdValues == {1, 3}
CoefValues == {-1, 1}

\* pt.softplus(x) = log(1 + exp(x)), rounded to the fixed-point resolution.
Softplus(x) ==
    IF x >= 8 THEN x * Scale
    ELSE IF x <= -8 THEN 0
    ELSE CASE x = -7 -> 1    [] x = -6 -> 2    [] x = -5 -> 7
           [] x = -4 -> 18   [] x = -3 -> 49   [] x = -2 -> 127
           [] x = -1 -> 313  [] x = 0 -> 693   [] x = 1 -> 1313
           [] x = 2 -> 2127  [] x = 3 -> 3049  [] x = 4 -> 4018
           [] x = 5 -> 5007  [] x = 6 -> 6002  [] x = 7 -> 7001

\* phi @ (hsgp_coefs * sqrt_psd).T : phi is (T, m), the coefficients are
\* (G, m) (one row when dims is a single label), the result is (T, G).
LinearF(phi, hsgp_coefs, sqrt_psd) ==
    [t \in DOMAIN phi |->
        [g \in DOMAIN hsgp_coefs |->
            SumSeq([j \in DOMAIN sqrt_psd |->
                       phi[t][j] * hsgp_coefs[g][j] * sqrt_psd[j]])]]

\* f.mean() over every element, the same for each column.
MeanAll(F) ==
    [g \in DOMAIN F[1] |->
        SumSeq([t \in DOMAIN F |-> SumSeq(F[t])]) \div (Len(F) * Len(F[1]))]

\* f.mean(axis=0): the mean over time of each column, in finite precision.
MeanAxis0(F) ==
    [g \in DOMAIN F[1] |-> SumSeq([t \in DOMAIN F |-> F[t][g]]) \div Len(F)]

\* f - f.mean(axis=0) + 1
CenteredF(F) ==
    [t \in DOMAIN F |-> [g \in DOMAIN F[1] |-> F[t][g] - MeanAxis0(F)[g] + Scale]]

SoftplusF(F) == [t \in DOMAIN F |-> [g \in DOMAIN F[1] |-> Softplus(F[t][g])]]

ValInputs ==
    UNION {[T : {T}, G : {G}, m : {m},
            phi : [1..T -> [1..m -> PhiValues]],
            sqrt_psd : [1..m -> PsdValues],
            hsgp_coefs : [1..G -> [1..m -> CoefValues]]] :
           T \in 1..MaxT, G \in 1..MaxG, m \in 1..MaxM}

InitValue ==
    /\ \E a \in ValInputs : val = [pc |-> "ready", args |-> a]
    /\ idx = IdxIdle
    /\ pend = [pc |-> "off"]
    /\ model = None
    /\ model_config = None
    /\ last = None
    /\ ncalls = 0

\* Lines 178-180 on one realization.
EvaluateMultiplier ==
    /\ val.pc = "ready"
    /\ LET f == LinearF(val.args.phi, val.args.hsgp_coefs, val.args.sqrt_psd)
           sp == SoftplusF(f)
       IN  val' = [pc |-> "done", args |-> val.args, f |-> f, softplus |-> sp,
                   centered_f |-> CenteredF(sp)]
    /\ UNCHANGED <<idx, pend, model, model_config, last, ncalls>>

NextValue == EvaluateMultiplier

SpecValue == InitValue /\ [][NextValue]_vars

ColumnSum(F, g) == SumSeq([t \in DOMAIN F |-> F[t][g]])

\* C3: every element of the multiplier softplus(f) - mean_over_time + 1 is
\* non-negative, whatever the coefficients.
C3_NonNegative ==
    val.pc = "done" =>
        \A t \in DOMAIN val.centered_f : \A g \in DOMAIN val.centered_f[t] :
            val.centered_f[t][g] >= 0

RECURSIVE GCD(_, _)
GCD(a, b) == IF b = 0 THEN a ELSE GCD(b, a % b)

Abs(x) == IF x < 0 THEN -x ELSE x

Rat(n, d) ==
    LET g == GCD(Abs(n), Abs(d))
        sgn == IF d < 0 THEN -1 ELSE 1
    IN  <<sgn * (n \div g), sgn * (d \div g)>>

RatAdd(p, q) == Rat(p[1] * q[2] + q[1] * p[2], p[2] * q[2])
RatMul(p, q) == Rat(p[1] * q[1], p[2] * q[2])
RatDiv(p, q) == Rat(p[1] * q[2], p[2] * q[1])
RatInt(n) == <<n, 1>>
RatPositive(p) == p[1] > 0

\* A dims argument: a single label (a str) or a tuple of labels.
DimsStr(label) == [tuple |-> FALSE, labels |-> <<label>>]
DimsTuple(labels) == [tuple |-> TRUE, labels |-> labels]

Raised(error, line) == <<error, line>>

\* np.arange(m)
Arange(m) == [i \in 1..m |-> i - 1]

\* Model.add_coord: a coordinate that exists with other values is refused.
AddCoord(ctx, label, values, line) ==
    IF label \in DOMAIN ctx.coords /\ ctx.coords[label] # values
    THEN [ctx |-> ctx, raised |-> Raised("ValueError", line)]
    ELSE [ctx |-> [ctx EXCEPT !.coords = (label :> values) @@ ctx.coords],
          raised |-> None]

\* Model.add_named_variable, as pm.Exponential, pm.InverseGamma, pm.Normal
\* and pm.Deterministic reach it: the name must be new, every dims label a
\* coordinate, and the number of labels the variable's ndim.
AddNamedVariable(ctx, name, var, ndim, line) ==
    IF \/ name \in DOMAIN ctx.named_vars
       \/ \E i \in 1..Len(var.dims) : var.dims[i] \notin DOMAIN ctx.coords
       \/ Len(var.dims) # ndim
    THEN [ctx |-> ctx, raised |-> Raised("ValueError", line)]
    ELSE [ctx |-> [ctx EXCEPT !.named_vars = (name :> var) @@ ctx.named_vars],
          raised |-> None]

FreeRV(dist, params, dims) ==
    [kind |-> "free_RV", dist |-> dist, params |-> params, dims |-> dims]

DeterministicVar(dims) ==
    [kind |-> "deterministic", dist |-> "", params |-> <<>>, dims |-> dims]

(***************************************************************************)
(* time_varying_prior (lines 100-181)                                      *)
(***************************************************************************)

\* X.mean().eval()
MeanOf(X) == Rat(SumSeq(X), Len(X))

\* Lines 158-159.
ResolveXMid(X, X_mid) == IF X_mid = None THEN MeanOf(X) ELSE X_mid

\* Lines 160-161.
ResolveL(L, X_mid) == IF L = None THEN RatMul(X_mid, RatInt(2)) ELSE L

\* The hyperpriors registered whether or not a cov_func was supplied.
StepCovFuncAlways(fr, a) ==
    LET eta == AddNamedVariable(fr.ctx, a.name \o "_eta",
                   FreeRV("Exponential", <<a.eta_lam>>, <<>>), 0, 166)
        ls == AddNamedVariable(eta.ctx, a.name \o "_ls",
                   FreeRV("InverseGamma", <<a.ls_mu, a.ls_sigma>>, <<>>), 0, 167)
    IN  IF eta.raised # None
        THEN [fr EXCEPT !.raised = eta.raised]
        ELSE [fr EXCEPT !.ctx = ls.ctx, !.raised = ls.raised]

\* Lines 165-168: without a cov_func, the amplitude and lengthscale priors
\* are registered and combined into the Matern52 kernel.
StepCovFunc(fr, a) ==
    IF a.cov_func # None THEN fr
    ELSE LET eta == AddNamedVariable(fr.ctx, a.name \o "_eta",
                        FreeRV("Exponential", <<a.eta_lam>>, <<>>), 0, 166)
             ls == AddNamedVariable(eta.ctx, a.name \o "_ls",
                        FreeRV("InverseGamma", <<a.ls_mu, a.ls_sigma>>, <<>>), 0, 167)
         IN  IF eta.raised # None
             THEN [fr EXCEPT !.raised = eta.raised]
             ELSE IF ls.raised # None
             THEN [fr EXCEPT !.ctx = ls.ctx, !.raised = ls.raised]
             ELSE [fr EXCEPT !.ctx = ls.ctx,
                             !.cov_func = <<"Matern52", a.name \o "_eta", a.name \o "_ls">>]

\* Line 170.
StepAddCoord(fr, a) ==
    IF fr.raised # None THEN fr
    ELSE LET r == AddCoord(fr.ctx, "m", Arange(a.m), 170)
         IN  [fr EXCEPT !.ctx = r.ctx, !.raised = r.raised]

\* Lines 171-173: any tuple takes the pair branch, and dims[1] of a shorter
\* tuple is an IndexError.
StepHsgpDims(fr, a) ==
    IF fr.raised # None THEN fr
    ELSE IF ~a.dims.tuple THEN [fr EXCEPT !.hsgp_dims = DimsStr("m")]
    ELSE IF Len(a.dims.labels) < 2 THEN [fr EXCEPT !.raised = Raised("IndexError", 173)]
    ELSE [fr EXCEPT !.hsgp_dims = DimsTuple(<<a.dims.labels[2], "m">>)]

\* Lines 175-176: pm.gp.HSGP(m=[m], L=[L], cov_func) and prior_linearized.
\* Neither this file nor the HSGP constructor looks at the sign of m or L;
\* phi has one row per time point and one column per basis function.
StepBasis(fr, a) ==
    IF fr.raised # None THEN fr
    ELSE [fr EXCEPT !.gp = <<[m |-> a.m, L |-> fr.L, cov_func |-> fr.cov_func,
                              phi_shape |-> <<Len(a.X), Len(Arange(a.m))>>]>>]

\* Line 177.
StepCoefs(fr, a) ==
    IF fr.raised # None THEN fr
    ELSE LET r == AddNamedVariable(fr.ctx, a.name \o "_hsgp_coefs",
                      FreeRV("Normal", <<>>, fr.hsgp_dims.labels),
                      Len(fr.hsgp_dims.labels), 177)
         IN  [fr EXCEPT !.ctx = r.ctx, !.raised = r.raised]

\* Lines 178-181: f has one axis (time) for 1-D coefficients and two (time,
\* group) for 2-D ones; the Deterministic is registered under dims.
StepDeterministic(fr, a) ==
    IF fr.raised # None THEN fr
    ELSE LET r == AddNamedVariable(fr.ctx, a.name, DeterministicVar(a.dims.labels),
                      Len(fr.hsgp_dims.labels), 181)
         IN  [fr EXCEPT !.ctx = r.ctx, !.raised = r.raised,
                        !.returned = IF r.raised = None THEN <<a.name>> ELSE None]

\* The whole function on context ctx: the context it leaves, the error it
\* raised (or None), the HSGP it built (or None) and the variable it returned.
time_varying_prior(ctx, a) ==
    LET X_mid == ResolveXMid(a.X, a.X_mid)
        fr0 == [ctx |-> ctx, raised |-> None, X_mid |-> X_mid,
                L |-> ResolveL(a.L, X_mid), cov_func |-> a.cov_func,
                hsgp_dims |-> DimsStr("m"), gp |-> None, returned |-> None]
    IN  StepDeterministic(
          StepCoefs(StepBasis(StepHsgpDims(StepAddCoord(StepCovFunc(fr0, a), a), a), a), a), a)

(***************************************************************************)
(* One direct call of time_varying_prior                                   *)
(***************************************************************************)

\* The caller's context: the coordinates of the data, no variable yet.
FreshCtx ==
    [named_vars |-> <<>>,
     coords |-> ("time" :> <<0, 1, 2>>) @@ ("channel" :> <<"tv", "radio", "social">>)
                @@ ("geo" :> <<"north", "south">>)]

DimsChoices ==
    {DimsStr("time"), DimsTuple(<<"time", "channel">>), DimsTuple(<<"time">>),
     DimsTuple(<<"time", "channel", "geo">>)}

\* A covariance object the caller built without registering any variable.
CallerCov == <<"ExpQuad">>

PriorArgs ==
    [name : {"a"}, X : {<<0, 1, 2>>, <<-2, -1, 0>>}, dims : DimsChoices,
     X_mid : {None, RatInt(1)}, m : {0, 2, 10},
     L : {None, RatInt(-1), RatInt(0), RatInt(5)},
     eta_lam : {1, 2}, ls_mu : {RatInt(5), RatInt(146)}, ls_sigma : {5, 7},
     cov_func : {None, CallerCov}]

\* Contexts a call can find: fresh, one where another multiplier "b" was
\* built before with two basis functions, and one where the caller already
\* has a variable named a_hsgp_coefs.
CtxAfterB ==
    time_varying_prior(FreshCtx,
        [name |-> "b", X |-> <<0, 1, 2>>, dims |-> DimsStr("time"), X_mid |-> None,
         m |-> 2, L |-> None, eta_lam |-> 1, ls_mu |-> RatInt(5), ls_sigma |-> 5,
         cov_func |-> None]).ctx

CtxUserVar ==
    [FreshCtx EXCEPT !.named_vars = "a_hsgp_coefs" :> FreeRV("Normal", <<>>, <<>>)]

PriorContexts == {FreshCtx, CtxAfterB, CtxUserVar}

InitPrior ==
    /\ \E a \in PriorArgs, c \in PriorContexts :
          pend = [pc |-> "ready", args |-> a, ctx |-> c]
    /\ idx = IdxIdle
    /\ val = [pc |-> "off"]
    /\ model = None
    /\ model_config = None
    /\ last = None
    /\ ncalls = 0

TimeVaryingPriorCall ==
    /\ pend.pc = "ready"
    /\ pend' = [pc |-> "done", args |-> pend.args, ctx |-> pend.ctx,
                out |-> time_varying_prior(pend.ctx, pend.args)]
    /\ UNCHANGED <<idx, val, model, model_config, last, ncalls>>

NextPrior == TimeVaryingPriorCall

SpecPrior == InitPrior /\ [][NextPrior]_vars

\* The names a call added to the context, and those of them that are random
\* variables.
NewNames(pre, post) == DOMAIN post.named_vars \ DOMAIN pre.named_vars
NewFreeRVs(pre, post) ==
    {n \in NewNames(pre, post) : post.named_vars[n].kind = "free_RV"}

PriorOk == pend.pc = "done" /\ pend.out.raised = None

\* C4 as stated: for a valid configuration (m >= 1, L > 0) a successful call
\* with cov_func unset creates exactly two new random variables, and with
\* cov_func supplied none.
C4_TwoOrZeroRandomVariables ==
    (PriorOk /\ pend.args.m >= 1 /\ RatPositive(pend.out.L)) =>
        Cardinality(NewFreeRVs(pend.ctx, pend.out.ctx)) =
            IF pend.args.cov_func = None THEN 2 ELSE 0

\* C4 amended: a successful call with cov_func unset creates exactly three
\* new random variables: the amplitude <name>_eta ~ Exponential(eta_lam), the
\* lengthscale <name>_ls ~ InverseGamma(ls_mu, ls_sigma) and the coefficients
\* <name>_hsgp_coefs; with cov_func supplied it creates the coefficients
\* alone, and what it registers does not depend on eta_lam, ls_mu, ls_sigma.
\* Either way the one other new name is the deterministic <name>, and the
\* variables the context had are untouched.
C4_HyperpriorsOnlyWithoutCovFunc ==
    PriorOk =>
        LET a == pend.args
            pre == pend.ctx
            post == pend.out.ctx
            coefs == a.name \o "_hsgp_coefs"
            coefs_dims == IF a.dims.tuple THEN <<a.dims.labels[2], "m">> ELSE <<"m">>
        IN  /\ \A n \in DOMAIN pre.named_vars :
                 n \in DOMAIN post.named_vars /\ post.named_vars[n] = pre.named_vars[n]
            /\ post.named_vars[coefs] = FreeRV("Normal", <<>>, coefs_dims)
            /\ post.named_vars[a.name] = DeterministicVar(a.dims.labels)
            /\ IF a.cov_func = None
               THEN /\ NewFreeRVs(pre, post) = {a.name \o "_eta", a.name \o "_ls", coefs}
                    /\ NewNames(pre, post) = NewFreeRVs(pre, post) \cup {a.name}
                    /\ post.named_vars[a.name \o "_eta"] =
                          FreeRV("Exponential", <<a.eta_lam>>, <<>>)
                    /\ post.named_vars[a.name \o "_ls"] =
                          FreeRV("InverseGamma", <<a.ls_mu, a.ls_sigma>>, <<>>)
               ELSE /\ NewFreeRVs(pre, post) = {coefs}
                    /\ NewNames(pre, post) = {coefs, a.name}

\* C4 witness: a successful call with cov_func supplied and non-default
\* eta_lam, ls_mu, ls_sigma, in a context that already held variables.
C4_Witness ==
    /\ PriorOk
    /\ pend.args.cov_func = CallerCov
    /\ pend.args.eta_lam = 2 /\ pend.args.ls_mu = RatInt(146) /\ pend.args.ls_sigma = 7
    /\ pend.ctx = CtxAfterB
    /\ pend.args.dims.tuple

\* C6: a call with m <= 0, or with a resolved L <= 0 (the default 2 * X_mid
\* included), fails, and fails before the spectral basis is constructed.
C6_NonPositiveRejected ==
    (pend.pc = "done" /\ (pend.args.m <= 0 \/ ~RatPositive(pend.out.L))) =>
        /\ pend.out.raised # None
        /\ pend.out.gp = None

\* Shape of a registered variable: the length of each of its coordinates.
ShapeOf(ctx, name) ==
    [i \in 1..Len(ctx.named_vars[name].dims) |->
        Len(ctx.coords[ctx.named_vars[name].dims[i]])]

\* C10: for m >= 1 and L > 0, a single label gives coefficients indexed by "m" alone; a pair gives
\* coefficients indexed by (group, "m"), basis functions of shape (T, m) and
\* an output of shape (T, groups); a tuple whose length is not 2 is rejected
\* without being dispatched to either case, so no coefficient variable is
\* registered for it.
C10_DimsDecideCoefficients ==
    (pend.pc = "done" /\ pend.args.m >= 1 /\ RatPositive(pend.out.L)) =>
        LET a == pend.args
            out == pend.out
            coefs == a.name \o "_hsgp_coefs"
            T == Len(a.X)
            G == Len(out.ctx.coords["channel"])
        IN  /\ (~a.dims.tuple /\ out.raised = None) =>
                  /\ out.ctx.named_vars[coefs].dims = <<"m">>
                  /\ ShapeOf(out.ctx, a.name) = <<T>>
            /\ (a.dims.tuple /\ Len(a.dims.labels) = 2 /\ out.raised = None) =>
                  /\ out.ctx.named_vars[coefs].dims = <<a.dims.labels[2], "m">>
                  /\ ShapeOf(out.ctx, coefs) = <<G, Len(Arange(a.m))>>
                  /\ out.gp[1].phi_shape = <<T, Len(Arange(a.m))>>
                  /\ ShapeOf(out.ctx, a.name) = <<T, G>>
            /\ (a.dims.tuple /\ Len(a.dims.labels) # 2) =>
                  /\ out.raised # None
                  /\ coefs \in DOMAIN pend.ctx.named_vars
                        \/ coefs \notin DOMAIN out.ctx.named_vars

(***************************************************************************)
(* create_time_varying_gp_multiplier (lines 184-231)                       *)
(***************************************************************************)

\* pymc_marketing.constants.DAYS_IN_YEAR (imported at line 95).
DAYS_IN_YEAR == 365

\* L recomputed on every call, set or not.
FillLAlways(tvp_config, time_index_mid, time_resolution) ==
    [tvp_config EXCEPT !.L =
        RatAdd(RatInt(time_index_mid),
               RatDiv(RatInt(DAYS_IN_YEAR), RatInt(time_resolution)))]

\* Lines 219-220: the fill of an unset L.
FillL(tvp_config, time_index_mid, time_resolution) ==
    IF tvp_config.L = None
    THEN [tvp_config EXCEPT !.L =
            RatAdd(RatInt(time_index_mid),
                   RatDiv(RatInt(DAYS_IN_YEAR), RatInt(time_resolution)))]
    ELSE tvp_config

\* Lines 221-222: the fill of an unset ls_mu.
FillLsMu(tvp_config, time_resolution) ==
    IF tvp_config.ls_mu = None
    THEN [tvp_config EXCEPT !.ls_mu =
            RatMul(RatDiv(RatInt(DAYS_IN_YEAR), RatInt(time_resolution)), RatInt(2))]
    ELSE tvp_config

\* The whole function on context ctx and mapping cfg. The record under the
\* key is the caller's own object, so a fill is a write into the mapping; a
\* division by a zero time_resolution raises where it stands.
create_time_varying_gp_multiplier(ctx, cfg, name, dims, time_index, time_index_mid, time_resolution) ==
    LET key == name \o "_tvp_config"
        fail(c, error, line) ==
            [ctx |-> ctx, model_config |-> c, raised |-> Raised(error, line),
             gp |-> None, returned |-> None]
    IN  IF key \notin DOMAIN cfg THEN fail(cfg, "KeyError", 217)
        ELSE IF cfg[key].L = None /\ time_resolution = 0
        THEN fail(cfg, "ZeroDivisionError", 220)
        ELSE LET c1 == FillL(cfg[key], time_index_mid, time_resolution)
                 cfg1 == [cfg EXCEPT ![key] = c1]
             IN  IF c1.ls_mu = None /\ time_resolution = 0
                 THEN fail(cfg1, "ZeroDivisionError", 222)
                 ELSE LET c2 == FillLsMu(c1, time_resolution)
                          cfg2 == [cfg1 EXCEPT ![key] = c2]
                          r == time_varying_prior(ctx,
                                 [name |-> name \o "_temporal_latent_multiplier",
                                  X |-> time_index, X_mid |-> RatInt(time_index_mid),
                                  dims |-> dims, m |-> c2.m, L |-> c2.L,
                                  eta_lam |-> c2.eta_lam, ls_mu |-> c2.ls_mu,
                                  ls_sigma |-> c2.ls_sigma, cov_func |-> c2.cov_func])
                      IN  [ctx |-> r.ctx, model_config |-> cfg2, raised |-> r.raised,
                           gp |-> r.gp, returned |-> r.returned]

\* At most MaxCalls calls are made on the context.
MaxCalls == 2

TimeIndex == <<0, 1, 2>>

\* The names called with: "a" and "b" have a record in the mapping, "c" has
\* none.
Names == {"a", "b", "c"}

CallDims == {DimsStr("time"), DimsTuple(<<"time", "channel">>), DimsTuple(<<"time">>)}

\* (time_index_mid, time_resolution) of a call.
MidAndResolution == {<<36, 5>>, <<10, 2>>, <<36, 0>>}

ConfigRecords ==
    [m : {2, 3}, L : {None, RatInt(50)}, eta_lam : {1}, ls_mu : {None, RatInt(5)},
     ls_sigma : {5}, cov_func : {None}]

Init ==
    /\ model = FreshCtx
    /\ \E ca \in ConfigRecords, cb \in ConfigRecords :
          model_config = ("a_tvp_config" :> ca) @@ ("b_tvp_config" :> cb)
    /\ last = None
    /\ ncalls = 0
    /\ idx = IdxIdle
    /\ val = [pc |-> "off"]
    /\ pend = [pc |-> "off"]

CreateMultiplier ==
    /\ ncalls < MaxCalls
    /\ \E name \in Names, dims \in CallDims, mr \in MidAndResolution :
          LET r == create_time_varying_gp_multiplier(model, model_config, name, dims,
                                                     TimeIndex, mr[1], mr[2])
          IN  /\ model' = r.ctx
              /\ model_config' = r.model_config
              /\ last' = <<[name |-> name, dims |-> dims, time_index_mid |-> mr[1],
                            time_resolution |-> mr[2], raised |-> r.raised,
                            gp |-> r.gp, returned |-> r.returned,
                            pre_model |-> model, pre_config |-> model_config]>>
    /\ ncalls' = ncalls + 1
    /\ UNCHANGED <<idx, val, pend>>

Next == CreateMultiplier

Spec == Init /\ [][Next]_vars

Called == last # None

LastCall == last[1]

KeyOf(name) == name \o "_tvp_config"

PriorName(name) == name \o "_temporal_latent_multiplier"

\* The names one build registers in the context.
BuildNames(name) ==
    {PriorName(name) \o "_eta", PriorName(name) \o "_ls",
     PriorName(name) \o "_hsgp_coefs", PriorName(name)}

\* C5: a call on a record whose L and ls_mu are None writes into the mapping
\* L = time_index_mid + DAYS_IN_YEAR / time_resolution and
\* ls_mu = 2 * DAYS_IN_YEAR / time_resolution (109 and 146 for mid 36 and
\* resolution 5); a call on a record whose L (ls_mu) is already set leaves it
\* as it is, whatever time_index_mid and time_resolution it is given; and no
\* other field, no other record and no key of the mapping ever changes.
C5_DefaultsFilledOnce ==
    Called =>
        LET c == LastCall
            key == KeyOf(c.name)
            pre == c.pre_config
            k == c.time_resolution
        IN  /\ DOMAIN model_config = DOMAIN pre
            /\ \A other \in DOMAIN pre : other # key => model_config[other] = pre[other]
            /\ key \in DOMAIN pre =>
                 LET old == pre[key]
                     new == model_config[key]
                 IN  /\ new.m = old.m /\ new.eta_lam = old.eta_lam
                     /\ new.ls_sigma = old.ls_sigma /\ new.cov_func = old.cov_func
                     /\ old.L # None => new.L = old.L
                     /\ old.ls_mu # None => new.ls_mu = old.ls_mu
                     /\ (old.L = None /\ old.ls_mu = None /\ k # 0) =>
                          /\ new.L # None /\ new.ls_mu # None
                          /\ new.L[1] * k = (c.time_index_mid * k + DAYS_IN_YEAR) * new.L[2]
                          /\ new.ls_mu[1] * k = 2 * DAYS_IN_YEAR * new.ls_mu[2]
                          /\ (k = 5 /\ c.time_index_mid = 36) =>
                                new.L = <<109, 1>> /\ new.ls_mu = <<146, 1>>

\* C5 witness: a second call on the record that a first call (mid 36,
\* resolution 5) resolved to L = 109 and ls_mu = 146, made with another
\* midpoint and resolution.
C5_Witness ==
    /\ Called
    /\ ncalls = 2
    /\ LastCall.name = "a"
    /\ LastCall.time_index_mid = 10 /\ LastCall.time_resolution = 2
    /\ LastCall.pre_config["a_tvp_config"].L = <<109, 1>>
    /\ LastCall.pre_config["a_tvp_config"].ls_mu = <<146, 1>>
    /\ model_config["a_tvp_config"].L = <<109, 1>>

\* C7: a call that raises leaves the context as it was: none of the names of
\* the build and no coordinate "m" has been added.
C7_FailedBuildLeavesContext ==
    (Called /\ LastCall.raised # None) =>
        /\ \A n \in BuildNames(LastCall.name) :
              n \in DOMAIN model.named_vars => n \in DOMAIN LastCall.pre_model.named_vars
        /\ "m" \in DOMAIN model.coords => "m" \in DOMAIN LastCall.pre_model.coords

\* C9: after a multiplier was built for one name, a call for another name
\* that has a record, with a single label or a pair as dims and a non-zero
\* resolution, succeeds and registers the names of its own build, also when
\* the two records have different m.
C9_DistinctNamesCoexist ==
    (/\ Called
     /\ KeyOf(LastCall.name) \in DOMAIN LastCall.pre_config
     /\ LastCall.time_resolution # 0
     /\ ~LastCall.dims.tuple \/ Len(LastCall.dims.labels) = 2
     /\ BuildNames(LastCall.name) \cap DOMAIN LastCall.pre_model.named_vars = {}
     /\ \E n \in Names \ {LastCall.name} :
           BuildNames(n) \subseteq DOMAIN LastCall.pre_model.named_vars) =>
        /\ LastCall.raised = None
        /\ BuildNames(LastCall.name) \subseteq DOMAIN model.named_vars

====
